---- MODULE Spec2Model ----
(***************************************************************************)
(* svreport: the local augmentation store (two SQLite tables behind two    *)
(* express routers), the gateway that mounts the routers in front of the   *)
(* upstream proxy, and the client's batched vendor enrichment for export.  *)
(***************************************************************************)
EXTENDS Integers, Sequences, FiniteSets, Bags, TLC

(* ------------------------------ bounds --------------------------------- *)

\* software title ids range over 0..MaxId
MaxId == 2
\* rowids handed out by AUTOINCREMENT stop at MaxSeq
MaxSeq == 2
\* CURRENT_TIMESTAMP ranges over 0..MaxClock
MaxClock == 1

IdSpace == 0..MaxId

(* --------------------------- JSON values ------------------------------- *)

\* a JSON value taken from a request body (undefined = key not present)
Undefined == [t |-> "undefined", n |-> 0, s |-> ""]
Null == [t |-> "null", n |-> 0, s |-> ""]
Num(n) == [t |-> "number", n |-> n, s |-> ""]
Str(s) == [t |-> "string", n |-> 0, s |-> s]

\* JavaScript truthiness, as used by `!software_title_id` and `!name`
Truthy(v) ==
  CASE v.t = "undefined" -> FALSE
    [] v.t = "null" -> FALSE
    [] v.t = "number" -> v.n # 0
    [] v.t = "string" -> v.s # ""

\* node-sqlite3 binds undefined like NULL; every other value binds as itself
Bind(v) == IF v.t = "undefined" THEN Null ELSE v

(* ------------------- decimal text of a path parameter ------------------ *)

DigitChar(d) ==
  CASE d = 0 -> "0" [] d = 1 -> "1" [] d = 2 -> "2" [] d = 3 -> "3"
    [] d = 4 -> "4" [] d = 5 -> "5" [] d = 6 -> "6" [] d = 7 -> "7"
    [] d = 8 -> "8" [] d = 9 -> "9"

DigitChars == {DigitChar(d) : d \in 0..9}

DigitValue(c) == CHOOSE d \in 0..9 : DigitChar(d) = c

RECURSIVE NatToText(_)
NatToText(n) ==
  IF n < 10 THEN <<DigitChar(n)>>
  ELSE Append(NatToText(n \div 10), DigitChar(n % 10))

\* the template literal `/api/open-source/${softwareId}`
NumberToText(n) == IF n < 0 THEN <<"-">> \o NatToText(-n) ELSE NatToText(n)

RECURSIVE DigitsToNat(_)
DigitsToNat(cs) ==
  IF cs = <<>> THEN 0
  ELSE 10 * DigitsToNat(SubSeq(cs, 1, Len(cs) - 1)) + DigitValue(cs[Len(cs)])

IsDigits(cs) == Len(cs) > 0 /\ \A i \in 1..Len(cs) : cs[i] \in DigitChars

\* mutant: the parameter stays text and equals no integer
TextNeverInteger(cs) == [ok |-> FALSE, n |-> 0]

\* SQLite applies INTEGER affinity to a text operand compared with the
\* software_title_id column: text that is a well-formed integer compares as
\* that integer, any other text equals no integer
TextToInteger(cs) ==
  IF IsDigits(cs) THEN [ok |-> TRUE, n |-> DigitsToNat(cs)]
  ELSE IF Len(cs) > 1 /\ cs[1] = "-" /\ IsDigits(Tail(cs))
       THEN [ok |-> TRUE, n |-> 0 - DigitsToNat(Tail(cs))]
       ELSE [ok |-> FALSE, n |-> 0]

(* ------------------------------ inputs --------------------------------- *)

\* display names, and their rank in SQLite's BINARY collation
NameSpace == {"Zlib", "curl"}
Collate(name) == CASE name = "Zlib" -> 1 [] name = "curl" -> 2 [] OTHER -> 0

RemarkSpace == {"", "needs review"}

BodyIds == {Undefined} \cup {Num(i) : i \in IdSpace}
BodyNames == {Undefined, Str("")} \cup {Str(s) : s \in NameSpace}
BodyRemarks == {Undefined} \cup {Str(s) : s \in RemarkSpace}
PathParams == {NumberToText(i) : i \in IdSpace} \cup {<<"x">>}

NoText == <<>>

(* ------------------------------- state --------------------------------- *)

VARIABLES
  open_source_software,  \* rows of table open_source_software
  software_remarks,      \* rows of table software_remarks
  sqlite_sequence,       \* AUTOINCREMENT high-water mark of each table
  now,                   \* CURRENT_TIMESTAMP
  req,                   \* the request most recently handled
  resp,                  \* its response
  deletedBefore          \* `deleted` of the response before it, when both
                         \* requests are DELETE of the same path

storeVars ==
  <<open_source_software, software_remarks, sqlite_sequence, now, req, resp, deletedBefore>>

Request(op, stid, text, param) ==
  [op |-> op, software_title_id |-> stid, text |-> text, param |-> param]

Response(status, id, deleted, rows) ==
  [status |-> status, id |-> id, deleted |-> deleted, rows |-> rows]

NoRequest == Request("none", Undefined, Undefined, NoText)
NoResponse == Response(0, 0, FALSE, <<>>)

\* res.status(400).json({ error: ... })
BadRequest == Response(400, 0, FALSE, <<>>)
\* res.status(500).json({ error: err.message })
ServerError == Response(500, 0, FALSE, <<>>)

(* --------------------------- SQLite tables ----------------------------- *)

SetMax(S) == CHOOSE m \in S : \A x \in S : x <= m

\* INTEGER PRIMARY KEY AUTOINCREMENT: one more than the largest rowid the
\* table ever held
NextRowid(table, seq) ==
  SetMax({seq} \cup {r.id : r \in table}) + 1

\* rows violating UNIQUE(software_title_id) against a new row
Conflicts(table, stid) == {r \in table : r.software_title_id = stid}

\* mutant: a plain INSERT into a table without the UNIQUE constraint
InsertWithoutUnique(table, seq, stid, text, ts) ==
  table \cup
    {[id |-> NextRowid(table, seq), software_title_id |-> stid, text |-> text,
      created_at |-> ts, updated_at |-> ts]}

\* mutant: INSERT OR IGNORE keeps the conflicting row
InsertOrIgnore(table, seq, stid, text, ts) ==
  IF Conflicts(table, stid) # {} THEN table
  ELSE table \cup
    {[id |-> NextRowid(table, seq), software_title_id |-> stid, text |-> text,
      created_at |-> ts, updated_at |-> ts]}

\* INSERT OR REPLACE INTO t (software_title_id, <text>, updated_at)
\*   VALUES (?, ?, CURRENT_TIMESTAMP)
\* deletes the conflicting rows and inserts a new row; id and created_at are
\* not listed, so they take the next rowid and DEFAULT CURRENT_TIMESTAMP
InsertOrReplace(table, seq, stid, text, ts) ==
  (table \ Conflicts(table, stid)) \cup
    {[id |-> NextRowid(table, seq), software_title_id |-> stid, text |-> text,
      created_at |-> ts, updated_at |-> ts]}

\* DELETE FROM open_source_software WHERE software_title_id = ?
\* with the path parameter (text) bound to ?
DeleteWhere(table, param) ==
  LET k == TextToInteger(param)
  IN  {r \in table : ~(k.ok /\ r.software_title_id = k.n)}

\* all orderings of a set of rows
Orderings(S) ==
  {f \in [1..Cardinality(S) -> S] : \A i, j \in 1..Cardinality(S) : i # j => f[i] # f[j]}

\* mutant: the statement without ORDER BY
Unordered(S) == Orderings(S)

\* SELECT * FROM open_source_software ORDER BY name
OrderByName(S) ==
  {f \in Orderings(S) :
     \A i, j \in 1..Cardinality(S) : i < j => Collate(f[i].text.s) <= Collate(f[j].text.s)}

(* ------------------------ routes/openSource.js ------------------------- *)

\* if (!software_title_id || !name) -> 400
FlagBodyAccepted(stid, name) == Truthy(stid) /\ Truthy(name)

\* mutant: deleted: this.changes >= 0
DeletedAlways(changes) == Response(200, 0, changes >= 0, <<>>)

\* res.json({ deleted: this.changes > 0 })
DeletedResponse(changes) == Response(200, 0, changes > 0, <<>>)

\* mutant: id: this.changes, which is 1 after every insert
UpsertResponseChanges(lastID) == Response(200, 1, FALSE, <<>>)

\* res.json({ id: this.lastID, software_title_id, <text> })
UpsertResponse(lastID) == Response(200, lastID, FALSE, <<>>)

\* res.json(rows)
RowsResponse(rows) == Response(200, 0, FALSE, rows)

\* router.get('/open-source')
GetOpenSource ==
  /\ req' = Request("listFlags", Undefined, Undefined, NoText)
  /\ \E fail \in BOOLEAN :
       IF fail
       THEN resp' = ServerError
       ELSE \E rows \in OrderByName(open_source_software) : resp' = RowsResponse(rows)
  /\ deletedBefore' = "none"
  /\ UNCHANGED <<open_source_software, software_remarks, sqlite_sequence, now>>

\* mutant: no `return` after the 400, so a body with a bindable id is still written
PostOpenSourceNoReturn ==
  \E stid \in BodyIds, name \in BodyNames :
    /\ req' = Request("upsertFlag", stid, name, NoText)
    /\ IF ~FlagBodyAccepted(stid, name)
       THEN /\ resp' = BadRequest
            /\ IF stid.t = "number" /\ name.t = "string"
                  /\ NextRowid(open_source_software, sqlite_sequence.open_source_software) <= MaxSeq
               THEN /\ open_source_software' =
                         InsertOrReplace(open_source_software,
                                         sqlite_sequence.open_source_software,
                                         stid.n, Bind(name), now)
                    /\ sqlite_sequence' =
                         [sqlite_sequence EXCEPT !.open_source_software =
                            NextRowid(open_source_software, sqlite_sequence.open_source_software)]
               ELSE UNCHANGED <<open_source_software, sqlite_sequence>>
       ELSE \E fail \in BOOLEAN :
            IF fail
            THEN /\ resp' = ServerError
                 /\ UNCHANGED <<open_source_software, sqlite_sequence>>
            ELSE /\ NextRowid(open_source_software, sqlite_sequence.open_source_software) <= MaxSeq
                 /\ open_source_software' =
                      InsertOrReplace(open_source_software, sqlite_sequence.open_source_software,
                                      stid.n, Bind(name), now)
                 /\ sqlite_sequence' =
                      [sqlite_sequence EXCEPT !.open_source_software =
                         NextRowid(open_source_software, sqlite_sequence.open_source_software)]
                 /\ resp' = UpsertResponse(sqlite_sequence'.open_source_software)
    /\ deletedBefore' = "none"
    /\ UNCHANGED <<software_remarks, now>>

\* router.post('/open-source')
PostOpenSource ==
  \E stid \in BodyIds, name \in BodyNames :
    /\ req' = Request("upsertFlag", stid, name, NoText)
    /\ IF ~FlagBodyAccepted(stid, name)
       THEN /\ resp' = BadRequest
            /\ UNCHANGED <<open_source_software, sqlite_sequence>>
       ELSE \E fail \in BOOLEAN :
            IF fail
            THEN /\ resp' = ServerError
                 /\ UNCHANGED <<open_source_software, sqlite_sequence>>
            ELSE /\ NextRowid(open_source_software, sqlite_sequence.open_source_software) <= MaxSeq
                 /\ open_source_software' =
                      InsertOrReplace(open_source_software, sqlite_sequence.open_source_software,
                                      stid.n, Bind(name), now)
                 /\ sqlite_sequence' =
                      [sqlite_sequence EXCEPT !.open_source_software =
                         NextRowid(open_source_software, sqlite_sequence.open_source_software)]
                 /\ resp' = UpsertResponse(sqlite_sequence'.open_source_software)
    /\ deletedBefore' = "none"
    /\ UNCHANGED <<software_remarks, now>>

\* mutant: the statement names the wrong table, DELETE FROM software_remarks
DeleteFromRemarks ==
  \E param \in PathParams :
    /\ req' = Request("deleteFlag", Undefined, Undefined, param)
    /\ \E fail \in BOOLEAN :
         IF fail
         THEN /\ resp' = ServerError
              /\ UNCHANGED software_remarks
         ELSE /\ software_remarks' = DeleteWhere(software_remarks, param)
              /\ resp' = DeletedResponse(Cardinality(software_remarks)
                                          - Cardinality(software_remarks'))
    /\ deletedBefore' =
         IF req.op = "deleteFlag" /\ req.param = param /\ resp.status = 200
         THEN (IF resp.deleted THEN "true" ELSE "false")
         ELSE "none"
    /\ UNCHANGED <<open_source_software, sqlite_sequence, now>>

\* router.delete('/open-source/:software_title_id')
DeleteOpenSource ==
  \E param \in PathParams :
    /\ req' = Request("deleteFlag", Undefined, Undefined, param)
    /\ \E fail \in BOOLEAN :
         IF fail
         THEN /\ resp' = ServerError
              /\ UNCHANGED open_source_software
         ELSE /\ open_source_software' = DeleteWhere(open_source_software, param)
              /\ resp' = DeletedResponse(Cardinality(open_source_software)
                                          - Cardinality(open_source_software'))
    /\ deletedBefore' =
         IF req.op = "deleteFlag" /\ req.param = param /\ resp.status = 200
         THEN (IF resp.deleted THEN "true" ELSE "false")
         ELSE "none"
    /\ UNCHANGED <<software_remarks, sqlite_sequence, now>>

(* ---------------------- routes/softwareRemarks.js ---------------------- *)

\* if (!software_title_id) -> 400
RemarkBodyAccepted(stid, remark) == Truthy(stid)

\* router.get('/software-remarks')
GetSoftwareRemarks ==
  /\ req' = Request("listRemarks", Undefined, Undefined, NoText)
  /\ \E fail \in BOOLEAN :
       IF fail
       THEN resp' = ServerError
       ELSE \E rows \in Orderings(software_remarks) : resp' = RowsResponse(rows)
  /\ deletedBefore' = "none"
  /\ UNCHANGED <<open_source_software, software_remarks, sqlite_sequence, now>>

\* mutant: the upsert as DELETE followed by INSERT, the storage failing in between
PostSoftwareRemarksInTwoSteps ==
  \E stid \in BodyIds, remark \in BodyRemarks :
    /\ req' = Request("upsertRemark", stid, remark, NoText)
    /\ IF ~RemarkBodyAccepted(stid, remark)
       THEN /\ resp' = BadRequest
            /\ UNCHANGED <<software_remarks, sqlite_sequence>>
       ELSE \E fail \in BOOLEAN :
            IF fail
            THEN /\ resp' = ServerError
                 /\ software_remarks' = software_remarks \ Conflicts(software_remarks, stid.n)
                 /\ UNCHANGED sqlite_sequence
            ELSE /\ NextRowid(software_remarks, sqlite_sequence.software_remarks) <= MaxSeq
                 /\ software_remarks' =
                      InsertOrReplace(software_remarks, sqlite_sequence.software_remarks,
                                      stid.n, Bind(remark), now)
                 /\ sqlite_sequence' =
                      [sqlite_sequence EXCEPT !.software_remarks =
                         NextRowid(software_remarks, sqlite_sequence.software_remarks)]
                 /\ resp' = UpsertResponse(sqlite_sequence'.software_remarks)
    /\ deletedBefore' = "none"
    /\ UNCHANGED <<open_source_software, now>>

\* router.post('/software-remarks')
PostSoftwareRemarks ==
  \E stid \in BodyIds, remark \in BodyRemarks :
    /\ req' = Request("upsertRemark", stid, remark, NoText)
    /\ IF ~RemarkBodyAccepted(stid, remark)
       THEN /\ resp' = BadRequest
            /\ UNCHANGED <<software_remarks, sqlite_sequence>>
       ELSE \E fail \in BOOLEAN :
            IF fail
            THEN /\ resp' = ServerError
                 /\ UNCHANGED <<software_remarks, sqlite_sequence>>
            ELSE /\ NextRowid(software_remarks, sqlite_sequence.software_remarks) <= MaxSeq
                 /\ software_remarks' =
                      InsertOrReplace(software_remarks, sqlite_sequence.software_remarks,
                                      stid.n, Bind(remark), now)
                 /\ sqlite_sequence' =
                      [sqlite_sequence EXCEPT !.software_remarks =
                         NextRowid(software_remarks, sqlite_sequence.software_remarks)]
                 /\ resp' = UpsertResponse(sqlite_sequence'.software_remarks)
    /\ deletedBefore' = "none"
    /\ UNCHANGED <<open_source_software, now>>

(* ------------------------------ the clock ------------------------------ *)

\* CURRENT_TIMESTAMP advances between statements
Tick ==
  /\ now < MaxClock
  /\ now' = now + 1
  /\ UNCHANGED <<open_source_software, software_remarks, sqlite_sequence, req, resp,
                 deletedBefore>>

(* ------------------------------ server.js ------------------------------ *)

VARIABLES
  server,  \* which server.js runs, and its NODE_ENV
  gw       \* the HTTP request most recently received, and the middleware that answered it

gatewayVars == <<server, gw>>

\* the two server.js of the repository; the first reads NODE_ENV
Servers ==
  {[variant |-> 1, production |-> FALSE], [variant |-> 1, production |-> TRUE],
   [variant |-> 2, production |-> TRUE]}

NoServer == [variant |-> 0, production |-> FALSE]

Methods == {"GET", "POST", "DELETE"}

\* request paths, by segment; ":software_title_id" stands for the path parameter
Paths ==
  {<<"api", "open-source">>, <<"api", "open-source", ":software_title_id">>,
   <<"api", "software-remarks">>, <<"api", "latest", "fleet", "software", "titles">>,
   <<"api", "health">>, <<"api", "v1", "fleet", "login">>, <<"software">>, <<"index.html">>}

\* files of dist/ that express.static serves
StaticFiles == {<<"index.html">>}

\* statuses the upstream API answers through the proxy
UpstreamStatus == {200, 404}

NoGateway == [method |-> "none", path |-> <<>>, handledBy |-> "none"]

\* app.use(mount, ...) matches a path that starts with the mount path
Mounted(mount, path) ==
  Len(path) >= Len(mount) /\ SubSeq(path, 1, Len(mount)) = mount

Rest(mount, path) == SubSeq(path, Len(mount) + 1, Len(path))

\* the routes of routes/openSource.js
OpenSourceRoutes(method, rest) ==
  \/ method \in {"GET", "POST"} /\ rest = <<"open-source">>
  \/ method = "DELETE" /\ Len(rest) = 2 /\ rest[1] = "open-source"

\* the route of routes/auth.js
AuthRoutes(method, rest) == method = "POST" /\ rest = <<"v1", "fleet", "login">>

\* express.static, then app.get('*')
StaticThenIndex(method, path) ==
  IF method = "GET" /\ path \in StaticFiles THEN "static"
  ELSE IF method = "GET"
       THEN (IF Mounted(<<"api">>, path) /\ Len(path) > 1 THEN "apiNotFound" ELSE "index.html")
       ELSE "finalhandler"

\* the middleware stack of the first server.js, in order
DispatchFirst(production, method, path) ==
  IF Mounted(<<"api">>, path) /\ OpenSourceRoutes(method, Rest(<<"api">>, path))
  THEN "openSourceRoutes"
  ELSE IF Mounted(<<"api">>, path) THEN "proxy"
  ELSE IF ~production THEN "viteProxy"
  ELSE StaticThenIndex(method, path)

\* the middleware stack of the second server.js, in order
DispatchSecond(method, path) ==
  IF Mounted(<<"api">>, path) /\ AuthRoutes(method, Rest(<<"api">>, path))
  THEN "authRoutes"
  ELSE IF Mounted(<<"api">>, path) /\ OpenSourceRoutes(method, Rest(<<"api">>, path))
  THEN "openSourceRoutes"
  ELSE IF method = "GET" /\ path = <<"api", "health">> THEN "health"
  ELSE IF Mounted(<<"api", "latest">>, path) THEN "proxy"
  ELSE StaticThenIndex(method, path)

Dispatch(srv, method, path) ==
  IF srv.variant = 1 THEN DispatchFirst(srv.production, method, path)
  ELSE DispatchSecond(method, path)

Received(method, path) ==
  gw' = [method |-> method, path |-> path, handledBy |-> Dispatch(server, method, path)]

\* a request that reaches routes/openSource.js runs its handler
GatewayOpenSource ==
  \E method \in Methods, path \in Paths :
    /\ Dispatch(server, method, path) = "openSourceRoutes"
    /\ Received(method, path)
    /\ CASE method = "GET" -> GetOpenSource
         [] method = "POST" -> PostOpenSource
         [] method = "DELETE" -> DeleteOpenSource
    /\ UNCHANGED server

\* a request forwarded to https://svscan.luminousindia.com
GatewayProxy ==
  \E method \in Methods, path \in Paths, status \in UpstreamStatus :
    /\ Dispatch(server, method, path) = "proxy"
    /\ Received(method, path)
    /\ req' = Request("proxied", Undefined, Undefined, NoText)
    /\ resp' = Response(status, 0, FALSE, <<>>)
    /\ deletedBefore' = "none"
    /\ UNCHANGED <<open_source_software, software_remarks, sqlite_sequence, now, server>>

\* status of the answers the server gives without the store or the upstream
LocalStatus(handledBy) ==
  IF handledBy \in {"apiNotFound", "finalhandler"} THEN 404 ELSE 200

\* a request answered by the health check, the mock login, the static files,
\* the Vite proxy, the 'API route not found' fallback or express's own 404
GatewayLocal ==
  \E method \in Methods, path \in Paths :
    /\ Dispatch(server, method, path) \notin {"openSourceRoutes", "proxy"}
    /\ Received(method, path)
    /\ req' = Request("local", Undefined, Undefined, NoText)
    /\ resp' = Response(LocalStatus(Dispatch(server, method, path)), 0, FALSE, <<>>)
    /\ deletedBefore' = "none"
    /\ UNCHANGED <<open_source_software, software_remarks, sqlite_sequence, now, server>>

(* ------------------- handleExport (vendor enrichment) ------------------ *)

\* const batchSize = 20
batchSize == 20

\* the upstream answers with 0..MaxSmall titles, or with batchSize..batchSize+MaxSmall
MaxSmall == 2
\* a response may settle while at most Window lookups issued before it are
\* still pending
Window == 1

TitleCounts == (0..MaxSmall) \cup {batchSize + k : k \in 0..MaxSmall}

VARIABLES
  page,         \* the page whose handleExport runs
  inventory,    \* what the upstream holds: the titles and how each lookup ends
  pc,           \* where handleExport is suspended
  isExporting,  \* useState(false)
  allSoftware,  \* the titles being exported (filteredSoftware on the open-source page)
  batchStart,   \* loop variable i
  inflight,     \* positions in softwareWithVersions whose lookup has not settled
  vendorMap,    \* new Map<number, string>()
  exportData,   \* the rows handed to exportToCSV
  csvCalls,     \* calls of exportToCSV in this run
  exportFailed  \* the run ended in handleExport's catch block (console.error)

exportVars ==
  <<page, inventory, pc, isExporting, allSoftware, batchStart, inflight, vendorMap,
    exportData, csvCalls, exportFailed>>

Pages == {"SoftwareListPage", "OpenSourceSoftwarePage"}

\* vendor strings
Unknown == [name |-> "Unknown", of |-> 0]
VendorOf(id) == [name |-> "vendor", of |-> id]

\* a title of the upstream: its id and whether versions.length > 0
Title(id, hasVersions) == [id |-> id, hasVersions |-> hasVersions]

\* how GET /api/latest/fleet/software/:versionId ends for a title
Outcomes == {"vendor", "blank", "http", "network"}

\* an upstream inventory of n titles in which title `special` (if any) has no
\* versions, or has a lookup that does not answer with a vendor
Inventory(n, special, kind) ==
  [titles |-> [k \in 1..n |-> Title(k, ~(k = special /\ kind = "versionless"))],
   lookup |-> [k \in 1..n |-> IF k = special /\ kind \in Outcomes THEN kind ELSE "vendor"]]

Inventories ==
  {Inventory(n, 0, "vendor") : n \in TitleCounts} \cup
  UNION {{Inventory(n, k, kind) :
            k \in 1..n, kind \in {"versionless", "blank", "http", "network"}} :
         n \in TitleCounts}

NoInventory == [titles |-> <<>>, lookup |-> <<>>]

\* software.versions.length > 0
HasVersions(software) == software.hasVersions

\* mutant: no filter, every title is a candidate
WithVersionsUnfiltered(titles) == titles

\* allSoftware.filter(software => software.versions.length > 0)
WithVersions(titles) == SelectSeq(titles, HasVersions)

Min(a, b) == IF a < b THEN a ELSE b

\* mutant: slice(i, i + batchSize + 1)
BatchOneMore(titles, i) == (i + 1)..Min(i + batchSize + 1, Len(WithVersions(titles)))

\* softwareWithVersions.slice(i, i + batchSize), as positions i+1 .. i+batchSize
Batch(titles, i) == (i + 1)..Min(i + batchSize, Len(WithVersions(titles)))

\* data.software?.vendor || 'Unknown', and 'Unknown' from the catch block
LookedUp(id, outcome) == IF outcome = "vendor" THEN VendorOf(id) ELSE Unknown

\* vendorMap.set(key, value)
MapSet(map, key, value) ==
  [k \in DOMAIN map \cup {key} |-> IF k = key THEN value ELSE map[k]]

\* vendorMap.get(software.id) || 'Unknown'
VendorColumn(map, id) ==
  IF id \in DOMAIN map /\ map[id].name # "" THEN map[id] ELSE Unknown

\* allSoftware.map(software => ({ Name, Vendor, ... }))
ExportRows(titles, map) ==
  [k \in 1..Len(titles) |-> [Name |-> titles[k].id, Vendor |-> VendorColumn(map, titles[k].id)]]

EmptyMap == [k \in {} |-> Unknown]

\* handleExport from loop index i up to its next await: either the lookups of
\* the batch at i are issued, or the loop is over, the rows are built,
\* exportToCSV is called and the finally block runs
Continue(titles, i, map, exporting, calls, data) ==
  /\ allSoftware' = titles
  /\ batchStart' = i
  /\ vendorMap' = map
  /\ exportFailed' = FALSE
  /\ IF i < Len(WithVersions(titles))
     THEN /\ pc' = "enriching"
          /\ inflight' = Batch(titles, i)
          /\ isExporting' = exporting
          /\ csvCalls' = calls
          /\ exportData' = data
     ELSE /\ pc' = "idle"
          /\ inflight' = {}
          /\ isExporting' = FALSE
          /\ csvCalls' = calls + 1
          /\ exportData' = ExportRows(titles, map)

\* the Export CSV button (disabled={isExporting || ...} on the software list
\* page, disabled={filteredSoftware.length === 0} on the open-source page) and
\* handleExport up to its first await
StartExport ==
  /\ pc = "idle"
  /\ IF page = "SoftwareListPage"
     THEN /\ ~isExporting
          /\ isExporting' = TRUE
          /\ pc' = "fetchingTitles"
          /\ allSoftware' = <<>>
          /\ batchStart' = 0
          /\ inflight' = {}
          /\ vendorMap' = EmptyMap
          /\ csvCalls' = 0
          /\ exportData' = <<>>
          /\ exportFailed' = FALSE
     ELSE /\ Len(inventory.titles) > 0
          /\ Continue(inventory.titles, 0, EmptyMap, FALSE, 0, <<>>)
  /\ UNCHANGED <<page, inventory>>

\* mutant: setIsExporting(false) at the end of the try block, no finally
TitlesFetchedNoFinally ==
  /\ pc = "fetchingTitles"
  /\ \E outcome \in {"ok", "http", "network"} :
       IF outcome = "ok"
       THEN Continue(inventory.titles, 0, EmptyMap, isExporting, csvCalls, exportData)
       ELSE /\ pc' = "idle"
            /\ exportFailed' = TRUE
            /\ UNCHANGED <<isExporting, allSoftware, batchStart, inflight, vendorMap,
                           csvCalls, exportData>>
  /\ UNCHANGED <<page, inventory>>

\* mutant: fetchAllSoftwareTitles returns [] from its catch block, no rethrow
TitlesFetchedSwallows ==
  /\ pc = "fetchingTitles"
  /\ \E outcome \in {"ok", "http", "network"} :
       IF outcome = "ok"
       THEN Continue(inventory.titles, 0, EmptyMap, isExporting, csvCalls, exportData)
       ELSE Continue(<<>>, 0, EmptyMap, isExporting, csvCalls, exportData)
  /\ UNCHANGED <<page, inventory>>

\* fetchAllSoftwareTitles answers: the titles, or an error that handleExport
\* catches before anything is exported
TitlesFetched ==
  /\ pc = "fetchingTitles"
  /\ \E outcome \in {"ok", "http", "network"} :
       IF outcome = "ok"
       THEN Continue(inventory.titles, 0, EmptyMap, isExporting, csvCalls, exportData)
       ELSE /\ pc' = "idle"
            /\ isExporting' = FALSE
            /\ exportFailed' = TRUE
            /\ UNCHANGED <<allSoftware, batchStart, inflight, vendorMap, csvCalls, exportData>>
  /\ UNCHANGED <<page, inventory>>

\* responses arrive out of order, within the Window
MaySettle(t) == Cardinality({u \in inflight : u < t}) <= Window

\* mutant: no try/catch around a lookup, so a failing one rejects Promise.all
\* and handleExport ends in its own catch block without rows
LookupSettledRethrows ==
  /\ pc = "enriching"
  /\ \E t \in inflight :
       /\ MaySettle(t)
       /\ LET software == WithVersions(allSoftware)[t]
              map == MapSet(vendorMap, software.id,
                            LookedUp(software.id, inventory.lookup[software.id]))
          IN  IF inventory.lookup[software.id] \in {"http", "network"}
              THEN /\ pc' = "idle"
                   /\ isExporting' = FALSE
                   /\ inflight' = {}
                   /\ exportFailed' = TRUE
                   /\ UNCHANGED <<vendorMap, allSoftware, batchStart, csvCalls, exportData>>
              ELSE IF inflight # {t}
              THEN /\ inflight' = inflight \ {t}
                   /\ vendorMap' = map
                   /\ UNCHANGED <<pc, isExporting, allSoftware, batchStart, csvCalls, exportData, exportFailed>>
              ELSE IF batchStart + batchSize < Len(WithVersions(allSoftware))
              THEN /\ pc' = "delay"
                   /\ inflight' = {}
                   /\ vendorMap' = map
                   /\ UNCHANGED <<isExporting, allSoftware, batchStart, csvCalls, exportData, exportFailed>>
              ELSE Continue(allSoftware, batchStart + batchSize, map, isExporting,
                            csvCalls, exportData)
  /\ UNCHANGED <<page, inventory>>

\* mutant: Promise.race in place of Promise.all, the first lookup to settle
\* lets the loop go on
LookupSettledRace ==
  /\ pc = "enriching"
  /\ \E t \in inflight :
       /\ MaySettle(t)
       /\ LET software == WithVersions(allSoftware)[t]
              map == MapSet(vendorMap, software.id,
                            LookedUp(software.id, inventory.lookup[software.id]))
          IN  IF t <= batchStart \/ batchStart + batchSize < Len(WithVersions(allSoftware))
              THEN /\ inflight' =
                        (inflight \ {t}) \cup
                        (IF t <= batchStart THEN {}
                         ELSE Batch(allSoftware, batchStart + batchSize))
                   /\ batchStart' = IF t <= batchStart THEN batchStart
                                    ELSE batchStart + batchSize
                   /\ vendorMap' = map
                   /\ UNCHANGED <<pc, isExporting, allSoftware, csvCalls, exportData, exportFailed>>
              ELSE IF inflight # {t}
              THEN /\ inflight' = inflight \ {t}
                   /\ vendorMap' = map
                   /\ UNCHANGED <<pc, isExporting, allSoftware, batchStart, csvCalls, exportData, exportFailed>>
              ELSE Continue(allSoftware, batchStart + batchSize, map, isExporting,
                            csvCalls, exportData)
  /\ UNCHANGED <<page, inventory>>

\* mutant: the delay is awaited after every batch, the last one too
LookupSettledAlwaysDelays ==
  /\ pc = "enriching"
  /\ \E t \in inflight :
       /\ MaySettle(t)
       /\ LET software == WithVersions(allSoftware)[t]
              map == MapSet(vendorMap, software.id,
                            LookedUp(software.id, inventory.lookup[software.id]))
          IN  IF inflight # {t}
              THEN /\ inflight' = inflight \ {t}
                   /\ vendorMap' = map
                   /\ UNCHANGED <<pc, isExporting, allSoftware, batchStart, csvCalls,
                                  exportData, exportFailed>>
              ELSE /\ pc' = "delay"
                   /\ inflight' = {}
                   /\ vendorMap' = map
                   /\ UNCHANGED <<isExporting, allSoftware, batchStart, csvCalls,
                                  exportData, exportFailed>>
  /\ UNCHANGED <<page, inventory>>

\* one vendor lookup of the batch settles (try or catch branch); the last one
\* resolves Promise.all, and handleExport goes on to the delay or to the rows
LookupSettled ==
  /\ pc = "enriching"
  /\ \E t \in inflight :
       /\ MaySettle(t)
       /\ LET software == WithVersions(allSoftware)[t]
              map == MapSet(vendorMap, software.id,
                            LookedUp(software.id, inventory.lookup[software.id]))
          IN  IF inflight # {t}
              THEN /\ inflight' = inflight \ {t}
                   /\ vendorMap' = map
                   /\ UNCHANGED <<pc, isExporting, allSoftware, batchStart, csvCalls, exportData, exportFailed>>
              ELSE IF batchStart + batchSize < Len(WithVersions(allSoftware))
              THEN /\ pc' = "delay"
                   /\ inflight' = {}
                   /\ vendorMap' = map
                   /\ UNCHANGED <<isExporting, allSoftware, batchStart, csvCalls, exportData, exportFailed>>
              ELSE Continue(allSoftware, batchStart + batchSize, map, isExporting,
                            csvCalls, exportData)
  /\ UNCHANGED <<page, inventory>>

\* setTimeout(resolve, 100) fires and the next batch is issued
DelayElapsed ==
  /\ pc = "delay"
  /\ Continue(allSoftware, batchStart + batchSize, vendorMap, isExporting, csvCalls, exportData)
  /\ UNCHANGED <<page, inventory>>

(* ------------------------ one page session ----------------------------- *)

\* the title ids for which a vendor lookup has answered with a vendor since the
\* page was mounted
VARIABLES resolved

sessionVars == <<resolved>>

SessionFresh == resolved = {}

\* a lookup answered with a vendor (response.ok, vendorMap.set(id, vendor))
Resolves ==
  resolved' = resolved \cup {id \in DOMAIN vendorMap' : vendorMap'[id] # Unknown}

(* ------------------- requests in flight at the store ------------------- *)

\* clients writing at the same time, one POST each
MaxWriters == 2
Writers == 1..MaxWriters

\* per writer: the request it sent, how far the handler got, and the answer
VARIABLES writers

writerVars == <<writers>>

Tables == {"open_source_software", "software_remarks"}

NoCall ==
  [st |-> "idle", table |-> "none", software_title_id |-> Undefined, text |-> Undefined,
   status |-> 0, id |-> 0, error |-> "", overlapped |-> FALSE]

\* db.run(...) called: the statement waits for the database thread
Queued(table, stid, text, overlapped) ==
  [st |-> "queued", table |-> table, software_title_id |-> stid, text |-> text,
   status |-> 0, id |-> 0, error |-> "", overlapped |-> overlapped]

\* the response sent: res.status(status).json({error}) or res.json({id, ...})
Answered(call, status, id, error) ==
  [call EXCEPT !.st = "done", !.status = status, !.id = id, !.error = error]

RowsOf(table) ==
  IF table = "open_source_software" THEN open_source_software ELSE software_remarks

\* mutant: a plain INSERT, whose conflict resolution is ABORT
OnConflictAbort == "ABORT"

\* INSERT OR REPLACE: the conflict resolution of the statement
OnConflict == "REPLACE"

\* the statement fails on the UNIQUE constraint unless the conflict is resolved
StatementError(table, stid) ==
  OnConflict = "ABORT" /\ Conflicts(RowsOf(table), stid) # {}

\* the synchronous part of a POST handler: validation, then db.run
WriterPosts(w) ==
  /\ writers[w].st = "idle"
  /\ \E table \in Tables, stid \in BodyIds :
       \E text \in (IF table = "open_source_software" THEN BodyNames ELSE BodyRemarks) :
         LET accepted == IF table = "open_source_software"
                         THEN FlagBodyAccepted(stid, text)
                         ELSE RemarkBodyAccepted(stid, text)
             waiting == {v \in Writers : writers[v].st = "queued"}
         IN  IF ~accepted
             THEN writers' = [writers EXCEPT ![w] =
                                Answered(Queued(table, stid, text, FALSE), 400, 0, "required")]
             ELSE writers' =
                    [v \in Writers |->
                       IF v = w THEN Queued(table, stid, text, waiting # {})
                       ELSE IF v \in waiting THEN [writers[v] EXCEPT !.overlapped = TRUE]
                       ELSE writers[v]]
  /\ UNCHANGED storeVars

\* the database thread runs one waiting statement, then its callback answers
StatementRuns(w) ==
  LET call == writers[w]
      rows == RowsOf(call.table)
      stid == call.software_title_id.n
  IN  /\ call.st = "queued"
      /\ \E fail \in BOOLEAN :
           IF fail
           THEN /\ writers' = [writers EXCEPT ![w] = Answered(call, 500, 0, "SQLITE_IOERR")]
                /\ UNCHANGED <<open_source_software, software_remarks, sqlite_sequence>>
           ELSE IF StatementError(call.table, stid)
           THEN /\ writers' = [writers EXCEPT ![w] = Answered(call, 500, 0, "SQLITE_CONSTRAINT")]
                /\ UNCHANGED <<open_source_software, software_remarks, sqlite_sequence>>
           ELSE LET lastID == NextRowid(rows, sqlite_sequence[call.table])
                    written == InsertOrReplace(rows, sqlite_sequence[call.table], stid,
                                               Bind(call.text), now)
                IN  /\ lastID <= MaxSeq
                    /\ open_source_software' =
                         IF call.table = "open_source_software" THEN written
                         ELSE open_source_software
                    /\ software_remarks' =
                         IF call.table = "software_remarks" THEN written
                         ELSE software_remarks
                    /\ sqlite_sequence' = [sqlite_sequence EXCEPT ![call.table] = lastID]
                    /\ writers' = [writers EXCEPT ![w] = Answered(call, 200, lastID, "")]
      /\ UNCHANGED <<now, req, resp, deletedBefore>>

(* ------------- the flag list of a page and the flag table -------------- *)

\* requests of the page that may be under way at the same time
MaxCalls == 2

\* ids and names of the upstream's titles
TitleIds == 1..MaxId
NameOf(id) == IF id % 2 = 1 THEN "curl" ELSE "Zlib"

\* user?.global_role
Roles == {"admin", "maintainer", "observer", ""}

VARIABLES
  role,            \* user?.global_role, '' without a user
  ui,              \* the handler the page ran last
  openSourceList,  \* useState: the software_title_ids the page holds as flagged
  calls,           \* bag of the fetches of the page on their way out or back
  failed           \* some fetch of the page was rejected or answered non-2xx

flagVars == <<role, ui, openSourceList, calls, failed>>

NoUi == [handler |-> "none", id |-> 0]
Ui(handler, id) == [handler |-> handler, id |-> id]

\* the fetches under way, one more and one fewer
Pending == BagToSet(calls)
MayFetch == BagCardinality(calls) < MaxCalls
With(call) == calls (+) SetToBag({call})
Without(call) == calls (-) SetToBag({call})

\* fetch(...) called, the response not yet there
Sent(kind, id) == [kind |-> kind, id |-> id, stage |-> "sent", outcome |-> "", ids |-> {}]

\* the response (or the rejection) on its way back to the page
Returned(call, outcome, ids) ==
  [call EXCEPT !.stage = "answered", !.outcome = outcome, !.ids = ids]

\* response.ok
Ok(status) == status >= 200 /\ status <= 299

\* mutant: every signed-in user passes
PrivilegedSignedIn(r) == r # ""

\* ['admin', 'maintainer'].includes(user?.global_role || '')
Privileged(r) == r \in {"admin", "maintainer"}

\* useEffect -> fetchOpenSourceList(): GET /api/open-source
Reload ==
  /\ page = "SoftwareListPage"
  /\ MayFetch
  /\ calls' = With(Sent("list", 0))
  /\ ui' = Ui("fetchOpenSourceList", 0)
  /\ UNCHANGED <<role, openSourceList, failed, storeVars>>

\* toggleOpenSource(softwareId, name) on the software list page,
\* removeFromOpenSource(softwareId) on the open-source page, up to the fetch
Toggle ==
  /\ \E id \in (IF page = "SoftwareListPage" THEN TitleIds ELSE openSourceList) :
       /\ ui' = Ui(IF page = "SoftwareListPage" THEN "toggleOpenSource"
                   ELSE "removeFromOpenSource", id)
       /\ IF ~Privileged(role)
          THEN UNCHANGED calls
          ELSE /\ MayFetch
               /\ calls' = With(IF page = "SoftwareListPage" /\ id \notin openSourceList
                                THEN Sent("post", id)
                                ELSE Sent("delete", id))
  /\ UNCHANGED <<role, openSourceList, failed, storeVars>>

\* the request reaches the router, the handler runs, the response leaves (and
\* may still be lost on its way)
ServerHandles ==
  \E call \in Pending :
    /\ call.stage = "sent"
    /\ CASE call.kind = "list" -> GetOpenSource
         [] call.kind = "post" ->
              /\ PostOpenSource
              /\ req'.software_title_id = Num(call.id)
              /\ req'.text = Str(NameOf(call.id))
         [] call.kind = "delete" ->
              /\ DeleteOpenSource
              /\ req'.param = NumberToText(call.id)
    /\ \E lost \in BOOLEAN :
         calls' = Without(call) (+) SetToBag({
           Returned(call,
                    IF lost THEN "rejected" ELSE IF Ok(resp'.status) THEN "ok" ELSE "status",
                    IF call.kind = "list"
                    THEN {resp'.rows[k].software_title_id : k \in 1..Len(resp'.rows)}
                    ELSE {})})
    /\ UNCHANGED <<role, ui, openSourceList, failed>>

\* the request never reaches the server: fetch rejects
RequestLost ==
  /\ \E call \in Pending :
       /\ call.stage = "sent"
       /\ calls' = Without(call) (+) SetToBag({Returned(call, "rejected", {})})
  /\ UNCHANGED <<role, ui, openSourceList, failed, storeVars>>

\* mutant: the list is updated before response.ok is looked at
SettledOptimistic(list, call) ==
  CASE call.kind = "list" -> IF call.outcome = "ok" THEN call.ids ELSE list
    [] call.kind = "post" -> list \cup {call.id}
    [] call.kind = "delete" -> list \ {call.id}

\* the list after the continuation of the fetch has run: setOpenSourceList on
\* response.ok, nothing otherwise
Settled(list, call) ==
  IF call.outcome # "ok" THEN list
  ELSE CASE call.kind = "list" -> call.ids
         [] call.kind = "post" -> list \cup {call.id}
         [] call.kind = "delete" -> list \ {call.id}

\* the awaited fetch settles and the handler runs to its end
ResponseArrives ==
  /\ \E call \in Pending :
       /\ call.stage = "answered"
       /\ openSourceList' = Settled(openSourceList, call)
       /\ failed' = (failed \/ call.outcome # "ok")
       /\ calls' = Without(call)
  /\ UNCHANGED <<role, ui, storeVars>>

\* no page holds a flag list
FlagsIdle ==
  /\ role = ""
  /\ ui = NoUi
  /\ openSourceList = {}
  /\ calls = EmptyBag
  /\ failed = FALSE

(* --------------------- the software list and its pages ------------------ *)

\* const itemsPerPage = 20
itemsPerPage == 20

\* the unfiltered inventory of the upstream fills MaxPages pages
MaxPages == 2

\* what the search box may hold
SearchTerms == {"", "a"}

VARIABLES
  searchTerm,           \* useState('')
  debouncedSearchTerm,  \* useState('')
  timer,                \* the 500 ms debounce timer is armed
  showVulnerable,       \* useState(false)
  currentPage,          \* useState(0)
  totalCount,           \* useState(0)
  softwareTitles,       \* useState([]): the query whose titles are displayed
  isLoading,            \* useState(true)
  error,                \* useState(null): an error message is set
  fetching,             \* bag of the fetchSoftwareTitles requests under way
  latest                \* the parameters of the request issued last

listVars ==
  <<searchTerm, debouncedSearchTerm, timer, showVulnerable, currentPage, totalCount,
    softwareTitles, isLoading, error, fetching, latest>>

\* new URLSearchParams({page, per_page, vulnerable, ...}) and query
Params(query, vulnerable, pageIndex) ==
  [query |-> query, vulnerable |-> vulnerable, page |-> pageIndex]

\* no titles fetched yet
NoTitles == Params("", FALSE, -1)

\* data.count: how many titles of the upstream match the query and the filter
TotalOf(params) ==
  IF params.query = "" /\ ~params.vulnerable THEN (MaxPages - 1) * itemsPerPage + 1
  ELSE IF params.query = "" THEN itemsPerPage
  ELSE 1

\* Math.ceil(totalCount / itemsPerPage)
TotalPages(count) == (count + itemsPerPage - 1) \div itemsPerPage

Max(a, b) == IF a > b THEN a ELSE b

\* neither the spinner nor the error view replaces the page
Visible == ~isLoading /\ ~error

\* fetchSoftwareTitles() up to its await
Fetch(params) ==
  /\ BagCardinality(fetching) < MaxCalls
  /\ isLoading' = TRUE
  /\ error' = FALSE
  /\ fetching' = fetching (+) SetToBag({params})
  /\ latest' = params

\* onChange of the search box; the effect on [searchTerm] re-arms the timer
TypeSearch ==
  /\ Visible
  /\ \E term \in SearchTerms \ {searchTerm} : searchTerm' = term
  /\ timer' = TRUE
  /\ UNCHANGED <<debouncedSearchTerm, showVulnerable, currentPage, totalCount,
                 softwareTitles, isLoading, error, fetching, latest>>

\* the debounce timer fires: setDebouncedSearchTerm(searchTerm), and the
\* effect on [debouncedSearchTerm, currentPage, showVulnerable] fetches
DebounceFires ==
  /\ timer
  /\ timer' = FALSE
  /\ debouncedSearchTerm' = searchTerm
  /\ IF debouncedSearchTerm' # debouncedSearchTerm
     THEN Fetch(Params(debouncedSearchTerm', showVulnerable, currentPage))
     ELSE UNCHANGED <<isLoading, error, fetching, latest>>
  /\ UNCHANGED <<searchTerm, showVulnerable, currentPage, totalCount, softwareTitles>>

\* onChange of the checkbox
ToggleVulnerable ==
  /\ Visible
  /\ showVulnerable' = ~showVulnerable
  /\ Fetch(Params(debouncedSearchTerm, showVulnerable', currentPage))
  /\ UNCHANGED <<searchTerm, debouncedSearchTerm, timer, currentPage, totalCount,
                 softwareTitles>>

\* the next-page button: setCurrentPage(prev => Math.min(totalPages - 1, prev + 1))
NextPage ==
  /\ Visible
  /\ TotalPages(totalCount) > 1
  /\ currentPage # TotalPages(totalCount) - 1
  /\ currentPage' = Min(TotalPages(totalCount) - 1, currentPage + 1)
  /\ IF currentPage' # currentPage
     THEN Fetch(Params(debouncedSearchTerm, showVulnerable, currentPage'))
     ELSE UNCHANGED <<isLoading, error, fetching, latest>>
  /\ UNCHANGED <<searchTerm, debouncedSearchTerm, timer, showVulnerable, totalCount,
                 softwareTitles>>

\* the previous-page button: setCurrentPage(prev => Math.max(0, prev - 1))
PreviousPage ==
  /\ Visible
  /\ TotalPages(totalCount) > 1
  /\ currentPage # 0
  /\ currentPage' = Max(0, currentPage - 1)
  /\ IF currentPage' # currentPage
     THEN Fetch(Params(debouncedSearchTerm, showVulnerable, currentPage'))
     ELSE UNCHANGED <<isLoading, error, fetching, latest>>
  /\ UNCHANGED <<searchTerm, debouncedSearchTerm, timer, showVulnerable, totalCount,
                 softwareTitles>>

\* the Retry button of the error view
Retry ==
  /\ ~isLoading /\ error
  /\ Fetch(Params(debouncedSearchTerm, showVulnerable, currentPage))
  /\ UNCHANGED <<searchTerm, debouncedSearchTerm, timer, showVulnerable, currentPage,
                 totalCount, softwareTitles>>

\* a fetchSoftwareTitles request settles: setSoftwareTitles and setTotalCount,
\* or setError from the catch block; setIsLoading(false) in the finally block
FetchSettles ==
  /\ \E params \in BagToSet(fetching), ok \in BOOLEAN :
       /\ fetching' = fetching (-) SetToBag({params})
       /\ IF ok
          THEN /\ softwareTitles' = params
               /\ totalCount' = TotalOf(params)
               /\ UNCHANGED error
          ELSE /\ error' = TRUE
               /\ UNCHANGED <<softwareTitles, totalCount>>
       /\ isLoading' = FALSE
  /\ UNCHANGED <<searchTerm, debouncedSearchTerm, timer, showVulnerable, currentPage, latest>>

\* no software list mounted
ListIdle ==
  /\ searchTerm = ""
  /\ debouncedSearchTerm = ""
  /\ timer = FALSE
  /\ showVulnerable = FALSE
  /\ currentPage = 0
  /\ totalCount = 0
  /\ softwareTitles = NoTitles
  /\ isLoading = TRUE
  /\ error = FALSE
  /\ fetching = EmptyBag
  /\ latest = NoTitles

(* --------------------------- the remark modal --------------------------- *)

VARIABLES
  remarks,                   \* useState({}): software id -> remark text
  showRemarkModal,           \* useState(false)
  currentRemarkSoftwareId,   \* useState(null)
  currentRemarkText,         \* useState('')
  isUpdatingRemark,          \* useState(false)
  saving                     \* the POST of handleUpdateRemark on its way out or back

remarkVars ==
  <<remarks, showRemarkModal, currentRemarkSoftwareId, currentRemarkText,
    isUpdatingRemark, saving>>

NoRemarks == [k \in {} |-> ""]

NoSave == [id |-> 0, text |-> "", stage |-> "none", outcome |-> ""]

\* remarks[software.id] || ''
RemarkOf(id) == IF id \in DOMAIN remarks THEN remarks[id] ELSE ""

\* {...prev, [currentRemarkSoftwareId]: currentRemarkText}
WithRemark(map, id, text) ==
  [k \in DOMAIN map \cup {id} |-> IF k = id THEN text ELSE map[k]]

\* handleRemarkClick(software.id, remarks[software.id] || '')
RemarkClick ==
  /\ Visible /\ ~showRemarkModal
  /\ \E id \in IdSpace :
       /\ currentRemarkSoftwareId' = Num(id)
       /\ currentRemarkText' = RemarkOf(id)
  /\ showRemarkModal' = TRUE
  /\ UNCHANGED <<remarks, isUpdatingRemark, saving, storeVars, listVars>>

\* onChange of the textarea
EditRemark ==
  /\ Visible /\ showRemarkModal
  /\ \E text \in RemarkSpace \ {currentRemarkText} : currentRemarkText' = text
  /\ UNCHANGED <<remarks, showRemarkModal, currentRemarkSoftwareId, isUpdatingRemark,
                 saving, storeVars, listVars>>

\* handleCloseRemarkModal (the X and the Cancel button)
CloseRemarkModal ==
  /\ Visible /\ showRemarkModal
  /\ showRemarkModal' = FALSE
  /\ currentRemarkSoftwareId' = Null
  /\ currentRemarkText' = ""
  /\ UNCHANGED <<remarks, isUpdatingRemark, saving, storeVars, listVars>>

\* the Save button (disabled={isUpdatingRemark}): handleUpdateRemark up to
\* its await
SaveRemark ==
  /\ Visible /\ showRemarkModal /\ ~isUpdatingRemark
  /\ IF currentRemarkSoftwareId = Null
     THEN UNCHANGED <<isUpdatingRemark, saving>>
     ELSE /\ isUpdatingRemark' = TRUE
          /\ saving' = [id |-> currentRemarkSoftwareId.n, text |-> currentRemarkText,
                        stage |-> "sent", outcome |-> ""]
  /\ UNCHANGED <<remarks, showRemarkModal, currentRemarkSoftwareId, currentRemarkText,
                 storeVars, listVars>>

\* the POST reaches routes/softwareRemarks.js, the handler runs, the response
\* leaves (and may still be lost on its way)
RemarkHandled ==
  /\ saving.stage = "sent"
  /\ PostSoftwareRemarks
  /\ req'.software_title_id = Num(saving.id)
  /\ req'.text = Str(saving.text)
  /\ \E lost \in BOOLEAN :
       saving' = [saving EXCEPT !.stage = "answered",
                                !.outcome = IF lost THEN "rejected"
                                            ELSE IF Ok(resp'.status) THEN "ok"
                                            ELSE "status"]
  /\ UNCHANGED <<remarks, showRemarkModal, currentRemarkSoftwareId, currentRemarkText,
                 isUpdatingRemark, listVars>>

\* the POST never reaches the server: fetch rejects
RemarkRequestLost ==
  /\ saving.stage = "sent"
  /\ saving' = [saving EXCEPT !.stage = "answered", !.outcome = "rejected"]
  /\ UNCHANGED <<remarks, showRemarkModal, currentRemarkSoftwareId, currentRemarkText,
                 isUpdatingRemark, storeVars, listVars>>

\* mutant: the modal is closed in the finally block
RemarkSettlesClosing ==
  /\ saving.stage = "answered"
  /\ IF saving.outcome = "ok"
     THEN /\ remarks' = WithRemark(remarks, saving.id, saving.text)
          /\ UNCHANGED error
     ELSE /\ error' = TRUE
          /\ UNCHANGED remarks
  /\ showRemarkModal' = FALSE
  /\ currentRemarkSoftwareId' = Null
  /\ currentRemarkText' = ""
  /\ isUpdatingRemark' = FALSE
  /\ saving' = NoSave
  /\ UNCHANGED <<storeVars, searchTerm, debouncedSearchTerm, timer, showVulnerable,
                 currentPage, totalCount, softwareTitles, isLoading, fetching, latest>>

\* the awaited POST settles and handleUpdateRemark runs to its end: setRemarks
\* and handleCloseRemarkModal, or setError from the catch block, then
\* setIsUpdatingRemark(false)
RemarkSettles ==
  /\ saving.stage = "answered"
  /\ IF saving.outcome = "ok"
     THEN /\ remarks' = WithRemark(remarks, saving.id, saving.text)
          /\ showRemarkModal' = FALSE
          /\ currentRemarkSoftwareId' = Null
          /\ currentRemarkText' = ""
          /\ UNCHANGED error
     ELSE /\ error' = TRUE
          /\ UNCHANGED <<remarks, showRemarkModal, currentRemarkSoftwareId,
                         currentRemarkText>>
  /\ isUpdatingRemark' = FALSE
  /\ saving' = NoSave
  /\ UNCHANGED <<storeVars, searchTerm, debouncedSearchTerm, timer, showVulnerable,
                 currentPage, totalCount, softwareTitles, isLoading, fetching, latest>>

\* no modal, no remark loaded
RemarksIdle ==
  /\ remarks = NoRemarks
  /\ showRemarkModal = FALSE
  /\ currentRemarkSoftwareId = Null
  /\ currentRemarkText = ""
  /\ isUpdatingRemark = FALSE
  /\ saving = NoSave

(* -------------------------- the Vendor column -------------------------- *)

VARIABLES
  shown,        \* softwareTitles as rendered: the titles and how each lookup ends
  vendorInfo,   \* useState<VendorInfo>({}): software id -> vendor
  looking       \* the fetchVendorInfo calls that have not settled

vendorVars == <<shown, vendorInfo, looking>>

\* the pages of titles the upstream may answer with
ShownPages == {inv \in Inventories : Len(inv.titles) <= MaxSmall}

Loading == [name |-> "Loading...", of |-> 0]

\* vendorInfo[software.id] || 'Loading...'
VendorCell(info, id) ==
  IF id \in DOMAIN info /\ info[id].name # "" THEN info[id] ELSE Loading

\* softwareTitles.filter(software => software.versions.length > 0 &&
\* !vendorInfo[software.id]).map(software => fetchVendorInfo(...)): the lookups
\* the effect starts; vendorCache is empty in every render, so each one fetches
Started(inv, info) ==
  {[id |-> inv.titles[k].id, outcome |-> inv.lookup[k]] :
     k \in {j \in 1..Len(inv.titles) :
              HasVersions(inv.titles[j]) /\ VendorCell(info, inv.titles[j].id) = Loading}}

\* setSoftwareTitles with another page of titles, and the effect on
\* [softwareTitles] that follows the render
TitlesShown ==
  /\ \E inv \in ShownPages \ {shown} :
       /\ shown' = inv
       /\ looking' = looking \cup Started(inv, vendorInfo)
  /\ UNCHANGED vendorInfo

\* one fetchVendorInfo settles: setVendorInfo in the try block, or nothing but
\* console.error and a dropped return value in the catch block
VendorSettles(call) ==
  /\ call \in looking
  /\ looking' = looking \ {call}
  /\ IF call.outcome \in {"vendor", "blank"}
     THEN vendorInfo' = MapSet(vendorInfo, call.id, LookedUp(call.id, call.outcome))
     ELSE UNCHANGED vendorInfo
  /\ UNCHANGED shown

\* nothing rendered, nothing looked up
VendorsIdle ==
  /\ shown = NoInventory
  /\ vendorInfo = EmptyMap
  /\ looking = {}

(* ------------------- handleExport, clicked more than once --------------- *)

\* the handleExport calls followed at once
MaxRuns == 2

VARIABLES
  runs          \* the handleExport calls that have not returned, each at its await

runVars == <<runs>>

\* a call that has returned
Done == [stage |-> "returned", at |-> 0, left |-> 0]

\* handleExport from loop index i up to its next await: the lookups of the
\* batch at i, or, past the last batch, exportToCSV and the return
Suspended(titles, i) ==
  IF Batch(titles, i) # {}
  THEN [stage |-> "batch", at |-> i, left |-> Cardinality(Batch(titles, i))]
  ELSE Done

\* `run` goes on to `next`; the finally block of the software list page when
\* it returns
Proceeds(run, next) ==
  /\ runs' = (runs (-) SetToBag({run})) (+) (IF next = Done THEN EmptyBag ELSE SetToBag({next}))
  /\ isExporting' = IF next = Done /\ page = "SoftwareListPage" THEN FALSE ELSE isExporting

\* the Export CSV button (disabled={isExporting || ...} on the software list
\* page, disabled={filteredSoftware.length === 0} on the open-source page) and
\* handleExport up to its first await
ExportClicked ==
  /\ BagCardinality(runs) < MaxRuns
  /\ IF page = "SoftwareListPage"
     THEN /\ ~isExporting
          /\ isExporting' = TRUE
          /\ runs' = runs (+) SetToBag({[stage |-> "titles", at |-> 0, left |-> 0]})
     ELSE /\ Len(inventory.titles) > 0
          /\ runs' = IF Suspended(inventory.titles, 0) = Done THEN runs
                     ELSE runs (+) SetToBag({Suspended(inventory.titles, 0)})
          /\ UNCHANGED isExporting
  /\ UNCHANGED <<page, inventory>>

\* fetchAllSoftwareTitles of a call settles
RunTitlesFetched ==
  /\ \E run \in BagToSet(runs) :
       /\ run.stage = "titles"
       /\ \E ok \in BOOLEAN :
            Proceeds(run, IF ok THEN Suspended(inventory.titles, 0) ELSE Done)
  /\ UNCHANGED <<page, inventory>>

\* one vendor lookup of a call settles; after the last one of a batch the call
\* waits for the delay, or writes the CSV and returns
RunLookupSettled ==
  /\ \E run \in BagToSet(runs) :
       /\ run.stage = "batch"
       /\ Proceeds(run,
                   IF run.left > 1 THEN [run EXCEPT !.left = run.left - 1]
                   ELSE IF run.at + batchSize < Len(WithVersions(inventory.titles))
                        THEN [run EXCEPT !.stage = "delay", !.left = 0]
                        ELSE Done)
  /\ UNCHANGED <<page, inventory>>

\* the 100 ms between two batches of a call have passed
RunDelayElapsed ==
  /\ \E run \in BagToSet(runs) :
       /\ run.stage = "delay"
       /\ Proceeds(run, Suspended(inventory.titles, run.at + batchSize))
  /\ UNCHANGED <<page, inventory>>

\* no handleExport call under way
RunsIdle == runs = EmptyBag

clientVars == <<flagVars, listVars, remarkVars, vendorVars, runVars>>

ClientIdle == FlagsIdle /\ ListIdle /\ RemarksIdle /\ VendorsIdle /\ RunsIdle

(* --------------------------- specification ----------------------------- *)

\* initializeDatabase on a fresh svreport.db: both tables exist and are empty
StoreInit ==
  /\ open_source_software = {}
  /\ software_remarks = {}
  /\ sqlite_sequence = [open_source_software |-> 0, software_remarks |-> 0]
  /\ now = 0
  /\ req = NoRequest
  /\ resp = NoResponse
  /\ deletedBefore = "none"

\* no server.js in front of the routers
GatewayIdle ==
  /\ server = NoServer
  /\ gw = NoGateway

\* no page mounted
ExportIdle ==
  /\ page = "none"
  /\ inventory = NoInventory
  /\ pc = "idle"
  /\ isExporting = FALSE
  /\ allSoftware = <<>>
  /\ batchStart = 0
  /\ inflight = {}
  /\ vendorMap = EmptyMap
  /\ exportData = <<>>
  /\ csvCalls = 0
  /\ exportFailed = FALSE

\* no writer connected
WritersIdle == writers = [w \in Writers |-> NoCall]

vars == <<storeVars, gatewayVars, exportVars, writerVars, sessionVars, clientVars>>

\* the two routers on their own, each handler called directly
Init ==
  /\ StoreInit
  /\ GatewayIdle
  /\ ExportIdle
  /\ WritersIdle
  /\ SessionFresh
  /\ ClientIdle

Next ==
  \/ GetOpenSource /\ UNCHANGED <<gatewayVars, exportVars, writerVars, sessionVars, clientVars>>
  \/ PostOpenSource /\ UNCHANGED <<gatewayVars, exportVars, writerVars, sessionVars, clientVars>>
  \/ DeleteOpenSource /\ UNCHANGED <<gatewayVars, exportVars, writerVars, sessionVars, clientVars>>
  \/ GetSoftwareRemarks /\ UNCHANGED <<gatewayVars, exportVars, writerVars, sessionVars, clientVars>>
  \/ PostSoftwareRemarks /\ UNCHANGED <<gatewayVars, exportVars, writerVars, sessionVars, clientVars>>
  \/ Tick /\ UNCHANGED <<gatewayVars, exportVars, writerVars, sessionVars, clientVars>>

Spec == Init /\ [][Next]_vars

\* the server as it is started: every request enters through server.js
GatewayInit ==
  /\ StoreInit
  /\ server \in Servers
  /\ gw = NoGateway
  /\ ExportIdle
  /\ WritersIdle
  /\ SessionFresh
  /\ ClientIdle

GatewayNext ==
  \/ GatewayOpenSource /\ UNCHANGED <<exportVars, writerVars, sessionVars, clientVars>>
  \/ GatewayProxy /\ UNCHANGED <<exportVars, writerVars, sessionVars, clientVars>>
  \/ GatewayLocal /\ UNCHANGED <<exportVars, writerVars, sessionVars, clientVars>>
  \/ Tick /\ UNCHANGED <<gatewayVars, exportVars, writerVars, sessionVars, clientVars>>

SpecGateway == GatewayInit /\ [][GatewayNext]_vars

\* a page is mounted over an upstream inventory and exports it
ExportInit ==
  /\ StoreInit
  /\ GatewayIdle
  /\ page \in Pages
  /\ inventory \in Inventories
  /\ pc = "idle"
  /\ isExporting = FALSE
  /\ allSoftware = <<>>
  /\ batchStart = 0
  /\ inflight = {}
  /\ vendorMap = EmptyMap
  /\ exportData = <<>>
  /\ csvCalls = 0
  /\ exportFailed = FALSE
  /\ WritersIdle
  /\ SessionFresh
  /\ ClientIdle

ExportNext ==
  \/ StartExport /\ UNCHANGED <<storeVars, gatewayVars, writerVars, sessionVars, clientVars>>
  \/ TitlesFetched /\ UNCHANGED <<storeVars, gatewayVars, writerVars, sessionVars, clientVars>>
  \/ LookupSettled /\ UNCHANGED <<storeVars, gatewayVars, writerVars, sessionVars, clientVars>>
  \/ DelayElapsed /\ UNCHANGED <<storeVars, gatewayVars, writerVars, sessionVars, clientVars>>

SpecExport == ExportInit /\ [][ExportNext]_vars

\* a page session: any number of exports, one after the other
SessionNext ==
  \/ StartExport /\ Resolves /\ UNCHANGED <<storeVars, gatewayVars, writerVars, clientVars>>
  \/ TitlesFetched /\ Resolves /\ UNCHANGED <<storeVars, gatewayVars, writerVars, clientVars>>
  \/ LookupSettled /\ Resolves /\ UNCHANGED <<storeVars, gatewayVars, writerVars, clientVars>>
  \/ DelayElapsed /\ Resolves /\ UNCHANGED <<storeVars, gatewayVars, writerVars, clientVars>>

SpecSession == ExportInit /\ [][SessionNext]_vars

\* several clients post to the two routers at the same time
ConcurrentInit ==
  /\ StoreInit
  /\ GatewayIdle
  /\ ExportIdle
  /\ WritersIdle
  /\ SessionFresh
  /\ ClientIdle

ConcurrentNext ==
  \/ \E w \in Writers : WriterPosts(w) /\ UNCHANGED <<gatewayVars, exportVars, sessionVars, clientVars>>
  \/ \E w \in Writers : StatementRuns(w) /\ UNCHANGED <<gatewayVars, exportVars, sessionVars, clientVars>>
  \/ Tick /\ UNCHANGED <<gatewayVars, exportVars, writerVars, sessionVars, clientVars>>

SpecConcurrent == ConcurrentInit /\ [][ConcurrentNext]_vars

\* a step of a running export that waits for nothing but the network or the timer
Settles ==
  /\ TitlesFetched \/ LookupSettled \/ DelayElapsed
  /\ UNCHANGED <<storeVars, gatewayVars, writerVars, sessionVars, clientVars>>

\* every request of an export eventually settles, and the timer fires
SpecExportFair == SpecExport /\ WF_vars(Settles)

\* the flag table as an earlier session may have left it
StoredFlags ==
  {[table |-> {}, seq |-> 0],
   [table |-> {[id |-> 1, software_title_id |-> 1, text |-> Str(NameOf(1)),
                created_at |-> 0, updated_at |-> 0]}, seq |-> 1]}

\* a page is mounted by a signed-in user; its mount effect has called
\* fetchOpenSourceList
FlagsInit ==
  /\ software_remarks = {}
  /\ \E stored \in StoredFlags :
       /\ open_source_software = stored.table
       /\ sqlite_sequence = [open_source_software |-> stored.seq, software_remarks |-> 0]
  /\ now = 0
  /\ req = NoRequest
  /\ resp = NoResponse
  /\ deletedBefore = "none"
  /\ GatewayIdle
  /\ page \in Pages
  /\ inventory = NoInventory
  /\ pc = "idle"
  /\ isExporting = FALSE
  /\ allSoftware = <<>>
  /\ batchStart = 0
  /\ inflight = {}
  /\ vendorMap = EmptyMap
  /\ exportData = <<>>
  /\ csvCalls = 0
  /\ exportFailed = FALSE
  /\ WritersIdle
  /\ SessionFresh
  /\ role \in Roles
  /\ ui = Ui("fetchOpenSourceList", 0)
  /\ openSourceList = {}
  /\ calls = SetToBag({Sent("list", 0)})
  /\ failed = FALSE
  /\ ListIdle
  /\ RemarksIdle
  /\ VendorsIdle
  /\ RunsIdle

otherThanFlags ==
  <<gatewayVars, exportVars, writerVars, sessionVars, listVars, remarkVars, vendorVars,
    runVars>>

FlagsNext ==
  \/ Reload /\ UNCHANGED otherThanFlags
  \/ Toggle /\ UNCHANGED otherThanFlags
  \/ ServerHandles /\ UNCHANGED otherThanFlags
  \/ RequestLost /\ UNCHANGED otherThanFlags
  \/ ResponseArrives /\ UNCHANGED otherThanFlags

SpecFlags == FlagsInit /\ [][FlagsNext]_vars

\* the software list page is mounted: the effects have armed the debounce
\* timer and called fetchSoftwareTitles
ListInit ==
  /\ StoreInit
  /\ GatewayIdle
  /\ ExportIdle
  /\ WritersIdle
  /\ SessionFresh
  /\ FlagsIdle
  /\ searchTerm = ""
  /\ debouncedSearchTerm = ""
  /\ timer = TRUE
  /\ showVulnerable = FALSE
  /\ currentPage = 0
  /\ totalCount = 0
  /\ softwareTitles = NoTitles
  /\ isLoading = TRUE
  /\ error = FALSE
  /\ fetching = SetToBag({Params("", FALSE, 0)})
  /\ latest = Params("", FALSE, 0)
  /\ RemarksIdle
  /\ VendorsIdle
  /\ RunsIdle

otherThanList ==
  <<storeVars, gatewayVars, exportVars, writerVars, sessionVars, flagVars, remarkVars, vendorVars,
    runVars>>

ListNext ==
  \/ TypeSearch /\ UNCHANGED otherThanList
  \/ DebounceFires /\ UNCHANGED otherThanList
  \/ ToggleVulnerable /\ UNCHANGED otherThanList
  \/ NextPage /\ UNCHANGED otherThanList
  \/ PreviousPage /\ UNCHANGED otherThanList
  \/ Retry /\ UNCHANGED otherThanList
  \/ FetchSettles /\ UNCHANGED otherThanList

SpecList == ListInit /\ [][ListNext]_vars

\* the software list page has loaded its first page; no remark is stored yet
RemarksInit ==
  /\ StoreInit
  /\ GatewayIdle
  /\ ExportIdle
  /\ WritersIdle
  /\ SessionFresh
  /\ FlagsIdle
  /\ searchTerm = ""
  /\ debouncedSearchTerm = ""
  /\ timer = FALSE
  /\ showVulnerable = FALSE
  /\ currentPage = 0
  /\ totalCount = TotalOf(Params("", FALSE, 0))
  /\ softwareTitles = Params("", FALSE, 0)
  /\ isLoading = FALSE
  /\ error = FALSE
  /\ fetching = EmptyBag
  /\ latest = Params("", FALSE, 0)
  /\ RemarksIdle
  /\ VendorsIdle
  /\ RunsIdle

otherThanRemarks ==
  <<gatewayVars, exportVars, writerVars, sessionVars, flagVars, vendorVars, runVars>>

RemarksNext ==
  \/ RemarkClick /\ UNCHANGED otherThanRemarks
  \/ EditRemark /\ UNCHANGED otherThanRemarks
  \/ CloseRemarkModal /\ UNCHANGED otherThanRemarks
  \/ SaveRemark /\ UNCHANGED otherThanRemarks
  \/ RemarkHandled /\ UNCHANGED otherThanRemarks
  \/ RemarkRequestLost /\ UNCHANGED otherThanRemarks
  \/ RemarkSettles /\ UNCHANGED otherThanRemarks
  \/ Retry /\ UNCHANGED <<otherThanRemarks, storeVars, remarkVars>>
  \/ FetchSettles /\ UNCHANGED <<otherThanRemarks, storeVars, remarkVars>>

SpecRemarks == RemarksInit /\ [][RemarksNext]_vars

\* the first page of titles has been rendered and its effect has run
VendorsInit ==
  /\ StoreInit
  /\ GatewayIdle
  /\ ExportIdle
  /\ WritersIdle
  /\ SessionFresh
  /\ FlagsIdle
  /\ ListIdle
  /\ RemarksIdle
  /\ shown \in ShownPages
  /\ vendorInfo = EmptyMap
  /\ looking = Started(shown, EmptyMap)
  /\ RunsIdle

otherThanVendors ==
  <<storeVars, gatewayVars, exportVars, writerVars, sessionVars, flagVars, listVars,
    remarkVars, runVars>>

VendorsNext ==
  \/ TitlesShown /\ UNCHANGED otherThanVendors
  \/ (\E call \in looking : VendorSettles(call)) /\ UNCHANGED otherThanVendors

SpecVendors == VendorsInit /\ [][VendorsNext]_vars

\* every lookup request eventually settles
SpecVendorsFair ==
  /\ SpecVendors
  /\ \A call \in [id : 1..MaxSmall, outcome : Outcomes] :
       WF_vars(VendorSettles(call) /\ UNCHANGED otherThanVendors)

\* a page with its Export CSV button, no export under way
RunsInit ==
  /\ StoreInit
  /\ GatewayIdle
  /\ page \in Pages
  /\ inventory \in Inventories
  /\ pc = "idle"
  /\ isExporting = FALSE
  /\ allSoftware = <<>>
  /\ batchStart = 0
  /\ inflight = {}
  /\ vendorMap = EmptyMap
  /\ csvCalls = 0
  /\ exportData = <<>>
  /\ exportFailed = FALSE
  /\ WritersIdle
  /\ SessionFresh
  /\ FlagsIdle
  /\ ListIdle
  /\ RemarksIdle
  /\ VendorsIdle
  /\ RunsIdle

otherThanRuns ==
  <<storeVars, gatewayVars, pc, allSoftware, batchStart, inflight, vendorMap, csvCalls,
    exportData, exportFailed, writerVars, sessionVars, flagVars, listVars, remarkVars,
    vendorVars>>

RunsNext ==
  \/ ExportClicked /\ UNCHANGED otherThanRuns
  \/ RunTitlesFetched /\ UNCHANGED otherThanRuns
  \/ RunLookupSettled /\ UNCHANGED otherThanRuns
  \/ RunDelayElapsed /\ UNCHANGED otherThanRuns

SpecRuns == RunsInit /\ [][RunsNext]_vars

(* ------------------------------ properties ----------------------------- *)

FlagRows(id) == {r \in open_source_software : r.software_title_id = id}
RemarkRows(id) == {r \in software_remarks : r.software_title_id = id}

\* the step is the handling of a request of kind op (only Tick moves the clock)
Handled(op) == req'.op = op /\ now' = now

\* C1: the flag table never holds two rows with the same software_title_id, and
\* right after a successful upsertFlag(id, n) it holds exactly one row for id,
\* whose name is n (so upsertFlag(id, n1) then upsertFlag(id, n2) leaves n2).
C1_OneFlagPerTitle ==
  /\ \A r1, r2 \in open_source_software :
       r1.software_title_id = r2.software_title_id => r1 = r2
  /\ (req.op = "upsertFlag" /\ resp.status = 200) =>
       /\ Cardinality(FlagRows(req.software_title_id.n)) = 1
       /\ \A r \in FlagRows(req.software_title_id.n) : r.text = req.text

\* a second successful upsertFlag on an id has replaced the row of the first
C1_Witness ==
  /\ req.op = "upsertFlag" /\ resp.status = 200 /\ resp.id = 2
  /\ Cardinality(open_source_software) = 1
  /\ \E r \in open_source_software : r.id = 2 /\ r.text = req.text

\* C2: the remark table never holds two rows with the same software_title_id;
\* its rows change only in a successful upsertRemark, which touches the rows of
\* its own id only and leaves a single row there, carrying its remark.
C2_OneRemarkPerTitle ==
  /\ [](\A r1, r2 \in software_remarks :
          r1.software_title_id = r2.software_title_id => r1 = r2)
  /\ [][/\ software_remarks' # software_remarks =>
            Handled("upsertRemark") /\ resp'.status = 200
       /\ (Handled("upsertRemark") /\ resp'.status = 200) =>
            \A id \in IdSpace :
              IF req'.software_title_id = Num(id)
              THEN /\ Cardinality(RemarkRows(id)') = 1
                   /\ \A r \in RemarkRows(id)' : r.text = Bind(req'.text)
              ELSE RemarkRows(id)' = RemarkRows(id)]_vars

\* "needs review" then "": the second upsert left one row, with remark ""
C2_Witness ==
  /\ req.op = "upsertRemark" /\ resp.status = 200 /\ resp.id = 2
  /\ req.text = Str("")
  /\ Cardinality(software_remarks) = 1
  /\ \E r \in software_remarks : r.id = 2 /\ r.text = Str("")

\* C3: unless the storage fails, deleteFlag(id) on a flagged id answers 200
\* {deleted: true} and removes the row; repeated right after that answer it
\* answers 200 {deleted: false}, and no row for id is left either time.
C3_DeleteTwice ==
  [][(Handled("deleteFlag") /\ resp'.status # 500) =>
       \A id \in IdSpace :
         req'.param = NumberToText(id) =>
           /\ FlagRows(id) # {} =>
                resp'.status = 200 /\ resp'.deleted /\ FlagRows(id)' = {}
           /\ (req.op = "deleteFlag" /\ req.param = req'.param
                  /\ resp.status = 200 /\ resp.deleted) =>
                resp'.status = 200 /\ ~resp'.deleted /\ FlagRows(id)' = {}]_vars

\* the second of two deletes of a flagged id has answered
C3_Witness ==
  /\ req.op = "deleteFlag" /\ deletedBefore = "true"
  /\ resp.status = 200 /\ ~resp.deleted
  /\ \E id \in IdSpace : req.param = NumberToText(id) /\ FlagRows(id) = {}

\* C4: upsertFlag with an integer software_title_id and a non-empty name is
\* accepted (200, or 500 when the storage fails); with software_title_id or
\* name missing or empty it is answered 400.
C4_UpsertFlagValidation ==
  req.op = "upsertFlag" =>
    IF req.software_title_id.t = "number" /\ req.text.t = "string" /\ req.text.s # ""
    THEN resp.status \in {200, 500}
    ELSE resp.status = 400

\* C5: unless the storage fails, upsertRemark(id, "") with an integer id is
\* answered 200 and leaves a row for id whose remark is the empty string.
C5_EmptyRemarkAccepted ==
  (req.op = "upsertRemark" /\ req.software_title_id.t = "number"
     /\ req.text = Str("") /\ resp.status # 500) =>
    /\ resp.status = 200
    /\ \E r \in RemarkRows(req.software_title_id.n) : r.text = Str("")

\* C6: upsertFlag and deleteFlag leave the remark table as it was, and
\* upsertRemark leaves the flag table as it was.
C6_TablesIndependent ==
  [][/\ (Handled("upsertFlag") \/ Handled("deleteFlag")) =>
          /\ software_remarks' = software_remarks
          /\ sqlite_sequence'.software_remarks = sqlite_sequence.software_remarks
     /\ Handled("upsertRemark") =>
          /\ open_source_software' = open_source_software
          /\ sqlite_sequence'.open_source_software = sqlite_sequence.open_source_software]_vars

\* a flag was deleted while remark rows exist
C6_Witness ==
  /\ req.op = "deleteFlag" /\ resp.status = 200 /\ resp.deleted
  /\ software_remarks # {}

\* C9: an upsert answered 400 leaves both tables as they were.
C9_RejectedUpsertNoChange ==
  [][((Handled("upsertFlag") \/ Handled("upsertRemark")) /\ resp'.status = 400) =>
       UNCHANGED <<open_source_software, software_remarks, sqlite_sequence>>]_vars

\* an upsert was rejected while both tables hold rows
C9_Witness ==
  /\ req.op \in {"upsertFlag", "upsertRemark"} /\ resp.status = 400
  /\ open_source_software # {} /\ software_remarks # {}

\* C10: unless the storage fails, deleteFlag(id) answers 200 with deleted true
\* exactly when a row for id existed before the call, and a call for an id
\* without a row leaves both tables as they were.
C10_DeleteReportsExistence ==
  [][Handled("deleteFlag") =>
       \A id \in IdSpace :
         req'.param = NumberToText(id) =>
           \/ resp'.status = 500
           \/ /\ resp'.status = 200
              /\ resp'.deleted <=> (FlagRows(id) # {})
              /\ FlagRows(id) = {} =>
                   UNCHANGED <<open_source_software, software_remarks>>]_vars

\* an id without a row was deleted while both tables hold rows
C10_Witness ==
  /\ req.op = "deleteFlag" /\ resp.status = 200 /\ ~resp.deleted
  /\ open_source_software # {} /\ software_remarks # {}

\* C7: every GET or POST of /api/software-remarks is answered by the remarks
\* router, never by the upstream proxy nor by the 'API route not found' fallback.
C7_RemarksServedLocally ==
  (gw.path = <<"api", "software-remarks">> /\ gw.method \in {"GET", "POST"}) =>
    gw.handledBy = "softwareRemarksRoutes"

\* C8: a failing vendor lookup aborts nothing: once the titles are there and
\* handleExport has ended, exportToCSV was called once, with one row per title
\* in the titles' order; the row of a title whose lookup failed (network error
\* or non-2xx) has Vendor "Unknown", and the row of every title whose lookup
\* answered a vendor has that vendor.
C8_BatchResilience ==
  /\ (pc = "idle" /\ allSoftware # <<>>) => csvCalls = 1
  /\ csvCalls = 1 =>
       /\ Len(exportData) = Len(inventory.titles)
       /\ \A k \in 1..Len(exportData) :
            /\ exportData[k].Name = inventory.titles[k].id
            /\ inventory.lookup[k] \in {"http", "network"} =>
                 exportData[k].Vendor = Unknown
            /\ (inventory.lookup[k] = "vendor" /\ inventory.titles[k].hasVersions) =>
                 exportData[k].Vendor = VendorOf(inventory.titles[k].id)

\* an export over two batches in which one lookup of the first batch failed
C8_Witness ==
  /\ csvCalls = 1 /\ pc = "idle"
  /\ Len(exportData) = batchSize + 1
  /\ \E k \in 1..batchSize :
       /\ inventory.lookup[k] \in {"http", "network"}
       /\ exportData[k].Vendor = Unknown
       /\ \A j \in 1..(batchSize + 1) : j # k => exportData[j].Vendor = VendorOf(j)

\* C12: a successful upsertFlag on an id that already has a row keeps the
\* row's id and created_at.
C12_UpsertInPlace ==
  [][(Handled("upsertFlag") /\ resp'.status = 200) =>
       \A r \in FlagRows(req'.software_title_id.n) :
         \E q \in open_source_software' :
           /\ q.software_title_id = r.software_title_id
           /\ q.id = r.id
           /\ q.created_at = r.created_at]_vars

\* the rows of a list response, as a set
Listed(rows) == {rows[k] : k \in 1..Len(rows)}

\* the set holds the row that a successful upsert answered for and wrote
HoldsAnswered(rows, request, response) ==
  \E r \in rows :
    /\ r.id = response.id
    /\ r.software_title_id = request.software_title_id.n
    /\ r.text = request.text

\* a successful upsert whose answer echoes a name or remark
Upserted(op) == req.op = op /\ resp.status = 200 /\ req.text.t # "undefined"

C14_ListIsSortedSnapshot ==
  (req.op = "listFlags" /\ resp.status = 200) =>
    /\ Len(resp.rows) = Cardinality(open_source_software)
    /\ Listed(resp.rows) = open_source_software
    /\ \A i, j \in 1..Len(resp.rows) :
         i < j => Collate(resp.rows[i].text.s) <= Collate(resp.rows[j].text.s)

\* two rows were listed, the one inserted later first
C14_Witness ==
  /\ req.op = "listFlags" /\ resp.status = 200
  /\ Len(resp.rows) = 2
  /\ resp.rows[1].id > resp.rows[2].id
  /\ resp.rows[1].text # resp.rows[2].text

\* C15: a request answered 500 leaves both tables and their AUTOINCREMENT
\* counters as they were.
C15_StorageErrorNoWrite ==
  [][(now' = now /\ resp'.status = 500) =>
       UNCHANGED <<open_source_software, software_remarks, sqlite_sequence>>]_vars

\* a write was answered 500 while its table holds a row for the same id
C15_Witness ==
  /\ req.op = "upsertRemark" /\ resp.status = 500
  /\ RemarkRows(req.software_title_id.n) # {}

\* the writers whose upsert of id into table was answered 200
Applied(table, id) ==
  {w \in Writers : /\ writers[w].st = "done" /\ writers[w].status = 200
                   /\ writers[w].table = table /\ writers[w].software_title_id.n = id}

\* C11: writers upserting at the same time never make each other fail (a POST
\* that passed validation is answered 200 unless the storage itself failed),
\* and for every id written the table holds exactly one row, which is the row of
\* the statement that ran last, with that writer's value and nothing of the
\* other's.
C11_LastWriterWins ==
  /\ \A w \in Writers :
       (writers[w].st = "done" /\ writers[w].status # 200) =>
         (writers[w].status = 400 \/ writers[w].error = "SQLITE_IOERR")
  /\ \A table \in Tables, id \in IdSpace :
       Applied(table, id) # {} =>
         LET last == CHOOSE w \in Applied(table, id) :
                       \A v \in Applied(table, id) : writers[v].id <= writers[w].id
             found == {r \in RowsOf(table) : r.software_title_id = id}
         IN  /\ Cardinality(found) = 1
             /\ \A r \in found : /\ r.id = writers[last].id
                                 /\ r.text = Bind(writers[last].text)

\* two writers were in flight together for the same id of the same table with
\* different values, and the statement of the second writer ran first
C11_Witness ==
  /\ writers[1].st = "done" /\ writers[2].st = "done"
  /\ writers[1].status = 200 /\ writers[2].status = 200
  /\ writers[1].overlapped /\ writers[2].overlapped
  /\ writers[1].table = writers[2].table
  /\ writers[1].software_title_id = writers[2].software_title_id
  /\ writers[1].text # writers[2].text
  /\ writers[2].id < writers[1].id

\* C16: no vendor lookup is in flight for a title whose vendor an earlier
\* lookup of the same page session has already answered.
C16_LookedUpOnce ==
  \A t \in inflight : WithVersions(allSoftware)[t].id \notin resolved

\* the ids of the candidates at the given positions of softwareWithVersions
IdsAt(positions) == {WithVersions(allSoftware)[p].id : p \in positions}

\* C17: lookups are issued only while no lookup is in flight and the lookup of
\* every candidate of the earlier batches has settled.
C17_BatchesInSequence ==
  [][~(inflight' \subseteq inflight) =>
       /\ inflight = {}
       /\ inflight' = Batch(allSoftware', batchStart')
       /\ IdsAt(1..batchStart)' \subseteq DOMAIN vendorMap']_vars

\* in the second batch a later lookup has settled before an earlier one
C17_Witness ==
  /\ pc = "enriching"
  /\ batchStart = batchSize
  /\ \E p \in Batch(allSoftware, batchStart) \ inflight : \E q \in inflight : q < p

\* C18: while an export looks up vendors the loop index is a multiple of 20,
\* the batch at the index has exactly 20 candidates unless it is the last, the
\* lookups in flight all belong to it (so at most 20 are in flight), and the
\* candidates looked up so far are exactly those of the earlier batches and
\* of the settled part of this one, none of them pending again; when the run
\* has written its CSV every candidate has been looked up.
C18_BatchPartition ==
  /\ Cardinality(inflight) <= batchSize
  /\ pc = "enriching" =>
       /\ batchStart % batchSize = 0
       /\ inflight # {}
       /\ inflight \subseteq Batch(allSoftware, batchStart)
       /\ \/ Cardinality(Batch(allSoftware, batchStart)) = batchSize
          \/ /\ Cardinality(Batch(allSoftware, batchStart)) < batchSize
             /\ batchStart + Cardinality(Batch(allSoftware, batchStart)) =
                  Len(WithVersions(allSoftware))
       /\ DOMAIN vendorMap =
            IdsAt((1..batchStart) \cup (Batch(allSoftware, batchStart) \ inflight))
       /\ IdsAt(inflight) \cap DOMAIN vendorMap = {}
  /\ csvCalls = 1 => DOMAIN vendorMap = IdsAt(1..Len(WithVersions(allSoftware)))

\* the last batch, smaller than 20, is in flight after a full one, and one of
\* the titles was left out for having no version
C18_Witness ==
  /\ pc = "enriching"
  /\ batchStart = batchSize
  /\ Cardinality(inflight) < batchSize
  /\ Cardinality(DOMAIN vendorMap) >= batchSize
  /\ Len(WithVersions(allSoftware)) < Len(allSoftware)

\* C19: on the software list page isExporting is true exactly while
\* handleExport is running, and when every request settles an export that is
\* running always comes to its end with isExporting false again.
C19_ExportReturnsToIdle ==
  /\ [](page = "SoftwareListPage" => (isExporting <=> pc # "idle"))
  /\ (isExporting ~> ~isExporting)

\* an export of the software list page has ended with a CSV although one
\* lookup failed
C19_Witness ==
  /\ page = "SoftwareListPage"
  /\ pc = "idle" /\ ~isExporting
  /\ csvCalls = 1
  /\ \E id \in DOMAIN vendorMap : vendorMap[id] = Unknown

\* C20: exportToCSV is called at most once per run, and only once the run is
\* over with the fetched titles, no lookup pending and every candidate looked
\* up; a title fetch that fails ends the run with no CSV and no lookup issued.
C20_AllOrNothing ==
  /\ [](/\ csvCalls <= 1
        /\ exportFailed => (csvCalls = 0 /\ vendorMap = EmptyMap)
        /\ csvCalls = 1 =>
             /\ pc = "idle" /\ inflight = {}
             /\ allSoftware = inventory.titles
             /\ Len(exportData) = Len(inventory.titles)
             /\ IdsAt(1..Len(WithVersions(allSoftware))) \subseteq DOMAIN vendorMap)
  /\ [][(pc = "fetchingTitles" /\ allSoftware' # inventory.titles) =>
          /\ pc' = "idle"
          /\ csvCalls' = 0 /\ exportData' = <<>>
          /\ inflight' = {} /\ vendorMap' = EmptyMap]_vars

\* the title fetch of the software list page failed: the run is over with no
\* CSV and no lookup, although the upstream holds titles with versions
C20_Witness ==
  /\ page = "SoftwareListPage"
  /\ exportFailed
  /\ pc = "idle" /\ ~isExporting
  /\ csvCalls = 0 /\ exportData = <<>>
  /\ allSoftware = <<>> /\ vendorMap = EmptyMap
  /\ Len(WithVersions(inventory.titles)) > batchSize

\* the ids of the titles of the export that have no version
Versionless == {allSoftware[k].id : k \in {j \in 1..Len(allSoftware) : ~HasVersions(allSoftware[j])}}

\* C21: a title without versions is never looked up (no lookup of it is in
\* flight, none has written vendorMap), and the rows handed to exportToCSV
\* hold one row per title, in order, the row of a title without versions with
\* Vendor "Unknown".
C21_VersionlessUnknown ==
  /\ Versionless \cap (IdsAt(inflight) \cup DOMAIN vendorMap) = {}
  /\ csvCalls = 1 =>
       /\ Len(exportData) = Len(allSoftware)
       /\ \A k \in 1..Len(allSoftware) :
            /\ exportData[k].Name = allSoftware[k].id
            /\ ~HasVersions(allSoftware[k]) => exportData[k].Vendor = Unknown

\* an export of more than one batch has written its rows, one of them for a
\* title without versions
C21_Witness ==
  /\ csvCalls = 1
  /\ Versionless # {}
  /\ Len(WithVersions(allSoftware)) > batchSize
  /\ \E k \in 1..Len(exportData) :
       exportData[k].Name \in Versionless /\ exportData[k].Vendor = Unknown

\* C22: the export waits for the timer only between two batches: while it
\* waits no lookup is pending, the batch before has settled and a batch is
\* still to come; the first batch is issued without a delay, every later
\* batch is issued by the timer firing, and the rows are never built out of
\* a delay.
C22_DelayBetweenBatches ==
  /\ [](pc = "delay" =>
          /\ inflight = {}
          /\ batchStart + batchSize < Len(WithVersions(allSoftware))
          /\ IdsAt(1..(batchStart + batchSize)) \subseteq DOMAIN vendorMap)
  /\ [][/\ (pc' = "enriching" /\ inflight = {}) =>
             IF batchStart' = 0
             THEN pc # "delay"
             ELSE pc = "delay" /\ batchStart' = batchStart + batchSize
        /\ (pc # "delay" /\ pc' = "delay") =>
             (pc = "enriching" /\ batchStart' = batchStart)
        /\ pc = "delay" => pc' = "enriching"
        /\ (csvCalls = 0 /\ csvCalls' = 1) => pc # "delay"]_vars

\* the export waits between its first and its second batch
C22_Witness ==
  /\ pc = "delay"
  /\ batchStart = 0
  /\ Cardinality(DOMAIN vendorMap) = batchSize

\* the software_title_ids of the flag table
FlaggedIds == {r.software_title_id : r \in open_source_software}

\* no fetch of the page is under way
Quiet == calls = EmptyBag

\* C23: whenever no request of the page is under way (and none has failed so
\* far), the page's openSourceList is the set of software_title_ids of the
\* flag table.
C23_ClientMatchesStore ==
  (Quiet /\ ~failed) => openSourceList = FlaggedIds

\* C26: when the fetch of a toggle settles, a rejected or non-2xx one leaves
\* openSourceList as it was, a successful POST adds exactly the toggled id and
\* a successful DELETE removes exactly the toggled id.
C26_ToggleOutcome ==
  [][\A call \in Pending :
       (call.stage = "answered" /\ call.kind \in {"post", "delete"}
        /\ calls' = Without(call)) =>
         openSourceList' =
           IF call.outcome # "ok" THEN openSourceList
           ELSE IF call.kind = "post" THEN openSourceList \cup {call.id}
           ELSE openSourceList \ {call.id}]_vars

\* the POST of a toggle of title 2 was answered 500 and the page still holds
\* the list it had loaded
C26_Witness ==
  /\ Quiet
  /\ ui = Ui("toggleOpenSource", 2)
  /\ req.op = "upsertFlag" /\ req.software_title_id = Num(2) /\ resp.status = 500
  /\ openSourceList = {1}

\* C27: for a user who is neither admin nor maintainer no POST or DELETE of
\* the page is ever under way, the flag table never changes, and running
\* toggleOpenSource or removeFromOpenSource changes neither the requests under
\* way nor openSourceList.
C27_RoleGate ==
  /\ [](role \notin {"admin", "maintainer"} =>
          \A call \in Pending : call.kind \notin {"post", "delete"})
  /\ [][role \notin {"admin", "maintainer"} =>
          /\ UNCHANGED <<open_source_software, sqlite_sequence>>
          /\ (ui' # ui /\ ui'.handler \in {"toggleOpenSource", "removeFromOpenSource"}) =>
               UNCHANGED <<calls, openSourceList>>]_vars

\* an observer has run the handler on a flagged title of the loaded list
C27_Witness ==
  /\ role = "observer"
  /\ ui.handler \in {"toggleOpenSource", "removeFromOpenSource"}
  /\ ui.id \in openSourceList
  /\ Quiet

\* C24: once every fetchSoftwareTitles request has settled (and the error
\* view is not up), the titles and the count displayed are those of the
\* request issued last.
C24_LatestQueryWins ==
  (fetching = EmptyBag /\ ~error) =>
    (softwareTitles = latest /\ totalCount = TotalOf(latest))

\* C25: currentPage is never negative and never beyond the last page.
C25_PageInRange ==
  /\ 0 <= currentPage
  /\ currentPage <= Max(0, TotalPages(totalCount) - 1)

\* C28: isUpdatingRemark is true exactly while the POST of handleUpdateRemark
\* is under way; when it settles with a 2xx response, remarks holds the
\* submitted text for the submitted id (other ids as before) and the modal is
\* closed; when it settles otherwise, remarks and the modal with its text are
\* as before and an error is set.
C28_RemarkSaveFlow ==
  /\ [](isUpdatingRemark <=> saving # NoSave)
  /\ [][(saving.stage = "answered" /\ saving' = NoSave) =>
          /\ ~isUpdatingRemark'
          /\ IF saving.outcome = "ok"
             THEN /\ remarks' = WithRemark(remarks, saving.id, saving.text)
                  /\ ~showRemarkModal'
             ELSE /\ remarks' = remarks
                  /\ UNCHANGED <<showRemarkModal, currentRemarkSoftwareId, currentRemarkText>>
                  /\ error']_vars

\* a save answered 500 has settled: the modal is still up with the text that
\* was submitted, the error is set and no remark is recorded
C28_Witness ==
  /\ saving = NoSave /\ ~isUpdatingRemark
  /\ req.op = "upsertRemark" /\ resp.status = 500
  /\ showRemarkModal /\ currentRemarkText = "needs review"
  /\ currentRemarkSoftwareId = req.software_title_id
  /\ error
  /\ remarks = NoRemarks

\* the ids of the titles on the rendered page
ShownIds == {shown.titles[k].id : k \in 1..Len(shown.titles)}

\* C29: every title on the rendered page eventually has a Vendor cell that
\* shows something other than "Loading...", unless it leaves the page first.
C29_VendorEventuallyShown ==
  \A id \in 1..MaxSmall :
    (id \in ShownIds) ~> (id \notin ShownIds \/ VendorCell(vendorInfo, id) # Loading)

\* C30: on either page at most one handleExport call is under way.
C30_OneExportPerView == BagCardinality(runs) <= 1

====
